---------------------------- MODULE Spec2Model ----------------------------
(***************************************************************************)
(* The automated report ingestion pipeline of vigilance_hub                *)
(* (system_reports/ingestion.py, system_reports/models.py) as a state      *)
(* machine: the database tables the pipeline reads and writes, the steps   *)
(* of run_pipeline, the admin review surface, and the confidence score.    *)
(*                                                                         *)
(* Numbers.  Signals in [0,1] are kept in thousandths (0..1000), the       *)
(* weights of calculate_confidence in hundredths, so a confidence score    *)
(* is an integer in units of 1/100000.  Time is in whole hours.            *)
(***************************************************************************)
EXTENDS Integers, Sequences, FiniteSets

VARIABLES
    now,            \* timezone.now(), hours
    reports,        \* table automated_reports (committed rows), id = index
    logs,           \* table report_processing_logs (committed rows)
    incidents,      \* table incidents, id = index
    matches,        \* table cross_source_matches, id = index
    last_fetched,   \* DataSource.last_fetched per source (-1 = NULL)
    pc,             \* per run_pipeline invocation: where it stands
    queue,          \* per invocation: fetched raw items not yet processed
    snapshot,       \* per invocation: evaluated queryset of auto_approve_high_confidence
    pendingAtQuery, \* per invocation: ids at pending_review when that queryset was evaluated
    last,           \* the step taken last (history)
    probe           \* the input and the result of a function applied on its own

vars == <<now, reports, logs, incidents, matches, last_fetched, pc, queue,
          snapshot, pendingAtQuery, last, probe>>

pipevars == <<now, reports, logs, incidents, matches, last_fetched, pc, queue,
              snapshot, pendingAtQuery, last>>

-----------------------------------------------------------------------------
(* Bounds of the model *)

MaxRuns == 2          \* run_pipeline invocations
MaxClock == 1         \* hours the clock may advance
MaxReviews == 1       \* reports a reviewer decides
MaxMentions == 6      \* largest cross_source_mentions probed
MaxKeywords == 3      \* detected keywords given to classify_incident
MaxTable == 2         \* rows of the keyword table
MaxLen == 5           \* characters of a text given to clean_text

(* Program constants *)

W_source_reliability == 30
W_cross_source_mentions == 25
W_temporal_recency == 20
W_language_certainty == 15
W_location_accuracy == 10
MentionsCap == 5
HighThreshold == 80000
MediumThreshold == 60000
SimilarRadiusKm == 5
SimilarWindowHours == 2
MatchWindowHours == 6
NoLocation == -1
NoIncident == 0
NeverFetched == -1
FetchIntervalMinutes == 15

Runs == 1..MaxRuns

Min(a, b) == IF a <= b THEN a ELSE b
Max(a, b) == IF a >= b THEN a ELSE b
Abs(a) == IF a >= 0 THEN a ELSE -a

-----------------------------------------------------------------------------
(* Reference data: the DataSource rows and what their adapters can return *)

Sources == {"social", "official"}

SourceOrder == <<"social", "official">>

\* DataSource.source_type
source_type(s) == IF s = "official" THEN "official" ELSE "social_media"

\* DataSource.credibility_score, thousandths
credibility_score(s) == 900

\* Upstream items: (source, source_identifier) names one item, its text and its
\* reported_at.  What the NLP stages and the geocoder make of the text is kept
\* with the item: incident_type (classify_incident), location_text
\* (extract_location), the geocoder's answer (coordinate in km along a line,
\* accuracy) and the certainty indicators found in the text.
ItemOf(i) ==
    CASE i = 1 -> [source |-> "social", source_identifier |-> 1, reported_at |-> 0,
                   incident_type |-> "accident", location_text |-> "thika road",
                   point |-> 10, accuracy |-> "exact", indicators |-> {1, 6}]
      [] i = 2 -> [source |-> "official", source_identifier |-> 1, reported_at |-> -1,
                   incident_type |-> "accident", location_text |-> "thika road",
                   point |-> 12, accuracy |-> "exact", indicators |-> {1}]
      [] OTHER -> [source |-> "official", source_identifier |-> 2, reported_at |-> -3,
                   incident_type |-> "crime", location_text |-> "",
                   point |-> NoLocation, accuracy |-> "", indicators |-> {}]

\* fetch_from_source(source): the items the source's adapter lists, the same on
\* every call (fetch_twitter returns its item on every call)
fetch_from_source(s) == IF s = "social" THEN <<1>> ELSE <<2, 3>>

-----------------------------------------------------------------------------
(* AutomatedReport.calculate_confidence *)

\* variant: the cap on the mentions term left out
mentions_score_uncapped(m) == (m * 1000) \div MentionsCap

\* variant: max written for min
mentions_score_max(m) == Max((m * 1000) \div MentionsCap, 1000)

\* mentions_score = min(cross_source_mentions / 5, 1.0), thousandths
mentions_score(m) == Min((m * 1000) \div MentionsCap, 1000)

\* location_scores.get(location_accuracy, 0.5), thousandths
location_score(acc) ==
    CASE acc = "exact" -> 1000
      [] acc = "approximate" -> 700
      [] acc = "county" -> 300
      [] OTHER -> 500

total_score(r) ==
      W_source_reliability * r.source_reliability
    + W_cross_source_mentions * mentions_score(r.cross_source_mentions)
    + W_temporal_recency * r.temporal_recency
    + W_language_certainty * r.language_certainty
    + W_location_accuracy * location_score(r.location_accuracy)

confidence_level_of(score, stype) ==
    IF stype = "official" THEN "verified"
    ELSE IF score >= HighThreshold THEN "high"
    ELSE IF score >= MediumThreshold THEN "medium"
    ELSE "low"

\* the instance after calculate_confidence()
calculate_confidence(r) ==
    [r EXCEPT !.confidence_score = total_score(r),
              !.confidence_level = confidence_level_of(total_score(r), source_type(r.source))]

\* NLPProcessor.calculate_certainty: the weights of the certainty_indicators, in
\* list order, thousandths
IndicatorWeights == <<300, 100, -200, -300, 200, 400>>

RECURSIVE SumWeights(_)
SumWeights(S) ==
    IF S = {} THEN 0
    ELSE LET n == CHOOSE x \in S : TRUE
         IN IndicatorWeights[n] + SumWeights(S \ {n})

\* calculate_certainty for a text in which the indicators in matched are found:
\* max(0.0, min(1.0, 0.5 + the weights of the matches))
calculate_certainty(matched) == Max(0, Min(1000, 500 + SumWeights(matched)))

\* IncidentIngestionPipeline.calculate_recency_score, thousandths
calculate_recency_score(hours_ago) ==
    IF hours_ago < 1 THEN 1000
    ELSE IF hours_ago < 3 THEN 800
    ELSE IF hours_ago < 6 THEN 600
    ELSE IF hours_ago < 12 THEN 400
    ELSE IF hours_ago < 24 THEN 200
    ELSE 100

-----------------------------------------------------------------------------
(* Queryset order *)

RECURSIVE ByReportedAtDesc(_, _)
\* Meta.ordering = ['-reported_at'] of AutomatedReport (ties by id)
ByReportedAtDesc(db, ids) ==
    IF ids = {} THEN <<>>
    ELSE LET m == CHOOSE x \in ids : \A y \in ids :
                      \/ db[x].reported_at > db[y].reported_at
                      \/ (db[x].reported_at = db[y].reported_at /\ x <= y)
         IN <<m>> \o ByReportedAtDesc(db, ids \ {m})

-----------------------------------------------------------------------------
(* process_single_report *)

StageNames == <<"text_cleaning", "keyword_detection", "classification",
                "location_extraction", "geocoding", "confidence_scoring">>

\* variant: the duplicate check looks only at reports still awaiting review
exists_report_pending_only(db, item) ==
    \E id \in DOMAIN db : /\ db[id].source = item.source
                          /\ db[id].source_identifier = item.source_identifier
                          /\ db[id].status = "pending_review"

\* AutomatedReport.objects.filter(source_identifier=.., source=..).exists()
exists_report(db, item) ==
    \E id \in DOMAIN db : /\ db[id].source = item.source
                          /\ db[id].source_identifier = item.source_identifier

\* AutomatedReport.objects.create(..., status='raw'): the other fields at their defaults
create_report(item) ==
    [source |-> item.source, source_identifier |-> item.source_identifier,
     reported_at |-> item.reported_at, status |-> "raw",
     incident_type |-> "", location_text |-> "",
     location |-> NoLocation, location_accuracy |-> "approximate",
     confidence_score |-> 0, confidence_level |-> "low",
     cross_source_mentions |-> 1, source_reliability |-> 500,
     temporal_recency |-> 1000, language_certainty |-> 500,
     incident |-> NoIncident, reviewed |-> FALSE, review_notes |-> ""]

\* log_processing(report, stage): one ReportProcessingLog row, success and error
\* at the defaults of the parameters
log_processing(id, stage) ==
    [report |-> id, stage |-> stage, success |-> TRUE, error_message |-> ""]

\* variant: the stage entered last is logged a second time
stage_logs_twice(id, k) ==
    [n \in 1..(k + 1) |-> [report |-> id, stage |-> StageNames[IF n > k THEN k ELSE n],
                           success |-> TRUE, error_message |-> ""]]

\* the rows log_processing has written when stages 1..k have been entered
stage_logs(id, k) == [n \in 1..k |-> log_processing(id, StageNames[n])]

\* the result geocode returns when the location is not resolved (None)
Unresolved == [raised |-> FALSE, ok |-> FALSE, point |-> NoLocation, accuracy |-> ""]

\* county_centroids, as coordinates in km along the line
county_centroids == [c \in {"nairobi", "mombasa", "kisumu", "nakuru"} |->
                        CASE c = "nairobi" -> 20 [] c = "mombasa" -> 460
                          [] c = "kisumu" -> -260 [] OTHER -> -140]

\* the accuracy geocode derives from the type of the first result
accuracy_of(type) ==
    IF type \in {"road", "highway"} THEN "exact"
    ELSE IF type \in {"city", "town"} THEN "approximate"
    ELSE "county"

\* the try block of geocode on an answer of the external service: it raises
\* (requests.get on a connection error, response.json() or result['lon'] on a
\* malformed body), returns a result, or falls through
try_geocode(response) ==
    CASE response.kind \in {"connection_error", "malformed"} ->
             [raised |-> TRUE, returned |-> FALSE, value |-> Unresolved]
      [] response.kind = "ok" ->
             [raised |-> FALSE, returned |-> TRUE,
              value |-> [raised |-> FALSE, ok |-> TRUE, point |-> response.point,
                         accuracy |-> accuracy_of(response.type)]]
      [] OTHER -> [raised |-> FALSE, returned |-> FALSE, value |-> Unresolved]

\* variant: no except clause, the exception leaves geocode
no_except(t) == t.raised

\* except Exception: the exception is logged, none leaves the try statement
except_Exception(t) == FALSE

\* the fallback after the try statement: the centroid of a county named in the text
county_fallback(location_text) ==
    IF location_text \in DOMAIN county_centroids
    THEN [raised |-> FALSE, ok |-> TRUE, point |-> county_centroids[location_text],
          accuracy |-> "county"]
    ELSE Unresolved

\* KenyanGeocoder.geocode(location_text) when the external service gives response
geocode_response(location_text, response) ==
    IF location_text = "" THEN Unresolved
    ELSE LET t == try_geocode(response)
         IN IF except_Exception(t) THEN [Unresolved EXCEPT !.raised = TRUE]
            ELSE IF t.returned THEN t.value
            ELSE county_fallback(location_text)

\* a result type for which geocode derives the given accuracy
type_of(accuracy) ==
    CASE accuracy = "exact" -> "road" [] accuracy = "approximate" -> "city"
      [] OTHER -> "administrative"

\* the answer of the external service for an item: its coordinate when the
\* service is up and knows the place, no result when it does not, a connection
\* error when it is down
service_response(item, up) ==
    IF ~up THEN [kind |-> "connection_error", type |-> "", point |-> NoLocation]
    ELSE IF item.point = NoLocation
         THEN [kind |-> "no_results", type |-> "", point |-> NoLocation]
    ELSE [kind |-> "ok", type |-> type_of(item.accuracy), point |-> item.point]

\* KenyanGeocoder.geocode for an item of the feed
geocode(location_text, item, up) ==
    geocode_response(location_text, service_response(item, up))

\* stages 3 and 4: classification and location extraction
stage_extract(r, item) ==
    [r EXCEPT !.incident_type = item.incident_type,
              !.location_text = item.location_text]

\* stage 5: geocoding
stage_geocode(r, item, up) ==
    LET g == geocode(item.location_text, item, up)
    IN IF item.location_text # "" /\ g.ok
       THEN [r EXCEPT !.location = g.point, !.location_accuracy = g.accuracy,
                      !.status = "geocoded"]
       ELSE r

\* stage 6: confidence scoring
stage_score(r, item, t) ==
    LET s == [r EXCEPT !.source_reliability = credibility_score(r.source),
                       !.temporal_recency = calculate_recency_score(t - r.reported_at),
                       !.language_certainty = calculate_certainty(item.indicators)]
    IN [calculate_confidence(s) EXCEPT !.status = "scored"]

\* find_similar_reports(report): ids of the stored reports within 5 km, not
\* older than 2 hours before it, of its incident type
find_similar_reports(db, r, self) ==
    IF r.location = NoLocation THEN {}
    ELSE {id \in DOMAIN db \ {self} :
            /\ db[id].location # NoLocation
            /\ Abs(db[id].location - r.location) <= SimilarRadiusKm
            /\ db[id].reported_at >= r.reported_at - SimilarWindowHours
            /\ db[id].incident_type = r.incident_type
            /\ db[id].status \in {"scored", "pending_review", "approved"}}

\* variant: the score is not recalculated after cross_source_mentions changed
stage_similar_no_recalc(r, db, self) ==
    LET similar == find_similar_reports(db, r, self)
    IN IF similar # {}
       THEN [r EXCEPT !.cross_source_mentions = Cardinality(similar) + 1]
       ELSE r

\* stage 7: similar existing reports raise cross_source_mentions
stage_similar(r, db, self) ==
    LET similar == find_similar_reports(db, r, self)
    IN IF similar # {}
       THEN calculate_confidence([r EXCEPT !.cross_source_mentions = Cardinality(similar) + 1])
       ELSE r

\* the row report.save() writes at the end of process_single_report
processed_report(db, item, up, t) ==
    LET self == Len(db) + 1
        r5 == stage_geocode(stage_extract(create_report(item), item), item, up)
        r7 == stage_similar(stage_score(r5, item, t), db, self)
    IN [r7 EXCEPT !.status = "pending_review"]

\* variant: no transaction around the block, its writes stay
no_rollback(committed, written) == written

\* transaction.atomic(): what is left of the writes of a block that raised
atomic_on_exception(committed, written) == committed

-----------------------------------------------------------------------------
(* find_cross_source_matches *)

\* recent_reports: status 'scored', reported within the last 6 hours
recent_reports(db, t) ==
    {id \in DOMAIN db : /\ db[id].status = "scored"
                        /\ db[id].reported_at >= t - MatchWindowHours}

\* CrossSourceMatch.objects.get_or_create(incident=inc), then add the members and
\* set the score; more than one row for inc raises MultipleObjectsReturned
match_report(ms, inc, members, n) ==
    LET found == {k \in DOMAIN ms : ms[k].incident = inc}
    IN IF Cardinality(found) > 1 THEN [raised |-> TRUE, matches |-> ms]
       ELSE IF found = {}
       THEN [raised |-> FALSE,
             matches |-> Append(ms, [incident |-> inc, automated_reports |-> members,
                                     match_score |-> n * 200])]
       ELSE LET k == CHOOSE x \in found : TRUE
            IN [raised |-> FALSE,
                matches |-> [ms EXCEPT ![k].automated_reports = @ \cup members,
                                       ![k].match_score = n * 200]]

RECURSIVE match_loop(_, _, _)
\* the loop over recent_reports, in queryset order
match_loop(db, ms, ids) ==
    IF ids = <<>> THEN [raised |-> FALSE, matches |-> ms]
    ELSE LET id == Head(ids)
             similar == find_similar_reports(db, db[id], id)
             step == IF similar = {} THEN [raised |-> FALSE, matches |-> ms]
                     ELSE match_report(ms, db[id].incident, similar \cup {id},
                                       Cardinality(similar))
         IN IF step.raised THEN step ELSE match_loop(db, step.matches, Tail(ids))

find_cross_source_matches(db, ms, t) ==
    match_loop(db, ms, ByReportedAtDesc(db, recent_reports(db, t)))

-----------------------------------------------------------------------------
(* auto_approve_high_confidence *)

\* variant: the queryset asks for confidence_level 'high' alone
high_confidence_high_only(db) ==
    {id \in DOMAIN db : /\ db[id].confidence_level = "high"
                        /\ db[id].status = "pending_review"
                        /\ db[id].location # NoLocation}

\* variant: the queryset does not ask for the status
high_confidence_any_status(db) ==
    {id \in DOMAIN db : /\ db[id].confidence_level \in {"high", "verified"}
                        /\ db[id].location # NoLocation}

\* the queryset: confidence_level in (high, verified), pending_review, location set
high_confidence(db) ==
    {id \in DOMAIN db : /\ db[id].confidence_level \in {"high", "verified"}
                        /\ db[id].status = "pending_review"
                        /\ db[id].location # NoLocation}

\* variant: the created incident is marked verified
create_incident_verified(r) ==
    [incident_type |-> r.incident_type, location |-> r.location,
     anonymous |-> TRUE, verified |-> TRUE, status |-> "verified"]

\* Incident.objects.create(... anonymous=True, verified=False, status='reported')
create_incident(r) ==
    [incident_type |-> r.incident_type, location |-> r.location,
     anonymous |-> TRUE, verified |-> FALSE, status |-> "reported"]

\* variant: the promoted report is linked but its status is left as it was
approved_report_link_only(r, inc) ==
    [r EXCEPT !.incident = inc, !.review_notes = "auto"]

\* the row report.save() writes for a promoted report: the instance the queryset
\* loaded, with the link, the status and the note set
approved_report(r, inc) ==
    [r EXCEPT !.incident = inc, !.status = "approved", !.review_notes = "auto"]

-----------------------------------------------------------------------------
(* The state machine *)

\* a step: what was done, by which invocation, on which fetched item (a fetch
\* also tells the sources that raised, a raise the stage that raised)
Step(a, r, i) == [act |-> a, run |-> r, item |-> i]

InitPipeline ==
    /\ now = 0
    /\ reports = <<>>
    /\ logs = <<>>
    /\ incidents = <<>>
    /\ matches = <<>>
    /\ last_fetched = [s \in Sources |-> NeverFetched]
    /\ pc = [r \in Runs |-> "idle"]
    /\ queue = [r \in Runs |-> <<>>]
    /\ snapshot = [r \in Runs |-> <<>>]
    /\ pendingAtQuery = [r \in Runs |-> {}]
    /\ last = Step("init", 0, 0)

RECURSIVE fetch_loop_abort(_, _, _, _)
\* variant: the exception of a source is not caught inside the loop and ends it
fetch_loop_abort(srcs, failing, acc, t) ==
    IF srcs = <<>> THEN acc
    ELSE IF Head(srcs) \in failing THEN acc
    ELSE fetch_loop_abort(Tail(srcs), failing,
             [items |-> acc.items \o fetch_from_source(Head(srcs)),
              last_fetched |-> [acc.last_fetched EXCEPT ![Head(srcs)] = t]],
             t)

RECURSIVE fetch_loop(_, _, _, _)
\* fetch_from_sources over the sources in order: [items, last_fetched]; a source
\* in failing raises, which is logged, and its last_fetched stays
fetch_loop(srcs, failing, acc, t) ==
    IF srcs = <<>> THEN acc
    ELSE LET s == Head(srcs)
         IN fetch_loop(Tail(srcs), failing,
                IF s \notin failing
                THEN [items |-> acc.items \o fetch_from_source(s),
                      last_fetched |-> [acc.last_fetched EXCEPT ![s] = t]]
                ELSE acc,
                t)

\* run_pipeline step 1: fetch_from_sources
FetchFromSources(r) ==
    /\ pc[r] = "idle"
    /\ \A q \in Runs : q < r => pc[q] # "idle"
    /\ \E failing \in SUBSET Sources :
         LET f == fetch_loop(SourceOrder, failing,
                             [items |-> <<>>, last_fetched |-> last_fetched], now)
         IN /\ queue' = [queue EXCEPT ![r] = f.items]
            /\ last_fetched' = f.last_fetched
            /\ last' = [act |-> "fetch", run |-> r, item |-> 0, failing |-> failing]
    /\ pc' = [pc EXCEPT ![r] = "process"]
    /\ UNCHANGED <<now, reports, logs, incidents, matches, snapshot, pendingAtQuery, probe>>

\* process_single_report, the duplicate check inside the transaction
ProcessCheck(r) ==
    /\ pc[r] = "process"
    /\ queue[r] # <<>>
    /\ IF exists_report(reports, ItemOf(Head(queue[r])))
       THEN /\ queue' = [queue EXCEPT ![r] = Tail(@)]
            /\ last' = Step("duplicate", r, Head(queue[r]))
            /\ pc' = pc
       ELSE /\ pc' = [pc EXCEPT ![r] = "txn"]
            /\ last' = Step("check", r, Head(queue[r]))
            /\ queue' = queue
    /\ UNCHANGED <<now, reports, logs, incidents, matches, last_fetched, snapshot,
                   pendingAtQuery, probe>>

\* process_single_report, create .. save and the commit of the transaction
ProcessCommit(r) ==
    /\ pc[r] = "txn"
    /\ LET item == ItemOf(Head(queue[r]))
       IN \E up \in BOOLEAN :
            /\ (item.location_text = "" => up)
            /\ reports' = Append(reports, processed_report(reports, item, up, now))
            /\ logs' = logs \o stage_logs(Len(reports) + 1, Len(StageNames))
    /\ queue' = [queue EXCEPT ![r] = Tail(@)]
    /\ pc' = [pc EXCEPT ![r] = "process"]
    /\ last' = Step("commit", r, Head(queue[r]))
    /\ UNCHANGED <<now, incidents, matches, last_fetched, snapshot, pendingAtQuery, probe>>

\* process_single_report, stage k raises: the transaction is rolled back and
\* run_pipeline logs the exception and goes on
ProcessRaise(r) ==
    /\ pc[r] = "txn"
    /\ LET item == ItemOf(Head(queue[r]))
       IN \E k \in 1..Len(StageNames) :
            /\ reports' = atomic_on_exception(reports, Append(reports, create_report(item)))
            /\ logs' = atomic_on_exception(logs, logs \o stage_logs(Len(reports) + 1, k))
            /\ last' = [act |-> "raise", run |-> r, item |-> Head(queue[r]),
                        stage |-> StageNames[k]]
    /\ queue' = [queue EXCEPT ![r] = Tail(@)]
    /\ pc' = [pc EXCEPT ![r] = "process"]
    /\ UNCHANGED <<now, incidents, matches, last_fetched, snapshot, pendingAtQuery, probe>>

\* variant: matching is called inside the loop over the fetched items
batch_done_any(q) == TRUE

\* the loop of run_pipeline over the fetched items has gone through all of them
batch_done(q) == q = <<>>

\* run_pipeline step 3: find_cross_source_matches; an exception in it ends the run
Match(r) ==
    /\ pc[r] = "process"
    /\ batch_done(queue[r])
    /\ LET m == find_cross_source_matches(reports, matches, now)
       IN /\ matches' = m.matches
          /\ pc' = [pc EXCEPT ![r] = IF m.raised THEN "aborted" ELSE "approve"]
    /\ last' = Step("match", r, 0)
    /\ UNCHANGED <<now, reports, logs, incidents, last_fetched, queue, snapshot,
                   pendingAtQuery, probe>>

\* auto_approve_high_confidence: the queryset is evaluated when the loop starts
ApproveQuery(r) ==
    /\ pc[r] = "approve"
    /\ snapshot' = [snapshot EXCEPT ![r] =
           LET ids == ByReportedAtDesc(reports, high_confidence(reports))
           IN [n \in DOMAIN ids |-> [id |-> ids[n], row |-> reports[ids[n]]]]]
    /\ pendingAtQuery' = [pendingAtQuery EXCEPT ![r] =
           {id \in DOMAIN reports : reports[id].status = "pending_review"}]
    /\ pc' = [pc EXCEPT ![r] = "promote"]
    /\ last' = Step("query", r, 0)
    /\ UNCHANGED <<now, reports, logs, incidents, matches, last_fetched, queue, probe>>

\* auto_approve_high_confidence: one turn of the loop
ApproveOne(r) ==
    /\ pc[r] = "promote"
    /\ snapshot[r] # <<>>
    /\ LET e == Head(snapshot[r])
       IN /\ incidents' = Append(incidents, create_incident(e.row))
          /\ reports' = [reports EXCEPT ![e.id] = approved_report(e.row, Len(incidents) + 1)]
    /\ snapshot' = [snapshot EXCEPT ![r] = Tail(@)]
    /\ last' = Step("promote", r, 0)
    /\ UNCHANGED <<now, logs, matches, last_fetched, pc, queue, pendingAtQuery, probe>>

\* run_pipeline returns; what the invocation knew is gone
Finish(r) ==
    /\ pc[r] = "promote"
    /\ snapshot[r] = <<>>
    /\ pc' = [pc EXCEPT ![r] = "done"]
    /\ pendingAtQuery' = [pendingAtQuery EXCEPT ![r] = {}]
    /\ last' = Step("finish", r, 0)
    /\ UNCHANGED <<now, reports, logs, incidents, matches, last_fetched, queue, snapshot,
                   probe>>

\* the review surface: a reviewer approves or rejects a report at pending_review
Review(id, decision) ==
    /\ Cardinality({j \in DOMAIN reports : reports[j].reviewed}) < MaxReviews
    /\ reports[id].status = "pending_review"
    /\ reports' = [reports EXCEPT ![id].status = decision,
                                  ![id].reviewed = TRUE,
                                  ![id].review_notes = "manual"]
    /\ last' = Step("review", 0, 0)
    /\ UNCHANGED <<now, logs, incidents, matches, last_fetched, pc, queue, snapshot,
                   pendingAtQuery, probe>>

\* Incident.verify(user)
Verify(i) ==
    /\ ~incidents[i].verified
    /\ incidents' = [incidents EXCEPT ![i].verified = TRUE]
    /\ last' = Step("verify", 0, 0)
    /\ UNCHANGED <<now, reports, logs, matches, last_fetched, pc, queue, snapshot,
                   pendingAtQuery, probe>>

\* time passes
Tick ==
    /\ now < MaxClock
    /\ now' = now + 1
    /\ last' = Step("tick", 0, 0)
    /\ UNCHANGED <<reports, logs, incidents, matches, last_fetched, pc, queue, snapshot,
                   pendingAtQuery, probe>>

-----------------------------------------------------------------------------
(* calculate_confidence on its own: an instance with any valid signal values *)

NoProbe == [stage |-> "none"]

ProbeInputs ==
    [stage : {"input"},
     source : Sources,
     cross_source_mentions : 0..MaxMentions,
     source_reliability : {0, 500, 900, 1000},
     temporal_recency : {0, 100, 200, 400, 600, 800, 1000},
     language_certainty : {calculate_certainty(S) : S \in SUBSET DOMAIN IndicatorWeights},
     location_accuracy : {"exact", "approximate", "county", ""},
     confidence_score : {0},
     confidence_level : {"low"}]

Score ==
    /\ probe.stage = "input"
    /\ probe' = [calculate_confidence(probe) EXCEPT !.stage = "scored"]
    /\ UNCHANGED pipevars

-----------------------------------------------------------------------------
(* Specifications *)

Init == InitPipeline /\ probe = NoProbe

\* no invocation is between its first and its last step
Quiet == \A q \in Runs : pc[q] \in {"idle", "done", "aborted"}

\* The scheduler starts one invocation at a time; reviewers and the clock act
\* at any moment.
Next ==
    \/ \E r \in Runs : Quiet /\ FetchFromSources(r)
    \/ \E r \in Runs : ProcessCheck(r)
    \/ \E r \in Runs : ProcessCommit(r)
    \/ \E r \in Runs : ProcessRaise(r)
    \/ \E r \in Runs : Match(r)
    \/ \E r \in Runs : ApproveQuery(r)
    \/ \E r \in Runs : ApproveOne(r)
    \/ \E r \in Runs : Finish(r)
    \/ \E id \in DOMAIN reports, d \in {"approved", "rejected"} : Review(id, d)
    \/ \E i \in DOMAIN incidents : Verify(i)
    \/ Tick

Spec == Init /\ [][Next]_vars

\* Invocations that overlap: nothing in run_pipeline keeps a second invocation
\* from starting while one is running.
NextOverlap ==
    \/ \E r \in Runs : FetchFromSources(r)
    \/ \E r \in Runs : ProcessCheck(r)
    \/ \E r \in Runs : ProcessCommit(r)
    \/ \E r \in Runs : ProcessRaise(r)
    \/ \E r \in Runs : Match(r)
    \/ \E r \in Runs : ApproveQuery(r)
    \/ \E r \in Runs : ApproveOne(r)
    \/ \E r \in Runs : Finish(r)

SpecOverlap == Init /\ [][NextOverlap]_vars

\* calculate_confidence applied to each valid instance
InitScore == InitPipeline /\ probe \in ProbeInputs

NextScore == Score

SpecScore == InitScore /\ [][NextScore]_vars

\* The invocations alone, one at a time.
NextRuns ==
    \/ \E r \in Runs : Quiet /\ FetchFromSources(r)
    \/ \E r \in Runs : ProcessCheck(r)
    \/ \E r \in Runs : ProcessCommit(r)
    \/ \E r \in Runs : ProcessRaise(r)
    \/ \E r \in Runs : Match(r)
    \/ \E r \in Runs : ApproveQuery(r)
    \/ \E r \in Runs : ApproveOne(r)
    \/ \E r \in Runs : Finish(r)

\* Upstream items of earlier fetches: two the feeds still list (the keys of
\* items 1 and 2) and two they list no more
BacklogItem(n, loc, at, ty) ==
    CASE n = 1 -> [ItemOf(1) EXCEPT !.reported_at = at]
      [] n = 2 -> [ItemOf(2) EXCEPT !.point = loc, !.reported_at = 0]
      [] n = 3 -> [source |-> "social", source_identifier |-> 2, reported_at |-> 0,
                   incident_type |-> ty,
                   location_text |-> IF loc = NoLocation THEN "" ELSE "thika road",
                   point |-> loc,
                   accuracy |-> IF loc = NoLocation THEN "" ELSE "exact",
                   indicators |-> {1}]
      [] OTHER -> [source |-> "official", source_identifier |-> 3, reported_at |-> at,
                   incident_type |-> ty, location_text |-> "thika road",
                   point |-> loc, accuracy |-> "exact", indicators |-> {1}]

\* the rows process_single_report stored for the four items, in that order
Backlog(at1, loc2, loc3, ty3) ==
    LET b1 == <<processed_report(<<>>, BacklogItem(1, 10, at1, "accident"), TRUE, 0)>>
        b2 == Append(b1, processed_report(b1, BacklogItem(2, loc2, 0, "accident"), TRUE, 0))
        b3 == Append(b2, processed_report(b2, BacklogItem(3, loc3, 0, ty3), TRUE, 0))
    IN Append(b3, processed_report(b3, BacklogItem(4, 19, 0, "crime"), TRUE, 0))

\* the change form of AutomatedReportAdmin: status and incident are editable
\* fields; sts gives the status each report is set to, linked tells whether
\* report 2 carries the link to the incident created from it
admin_change(db, sts, linked) ==
    [id \in DOMAIN db |->
        IF id = 2 /\ linked
        THEN [db[id] EXCEPT !.status = sts[id], !.incident = 1, !.review_notes = "auto"]
        ELSE [db[id] EXCEPT !.status = sts[id]]]

\* The database as earlier runs and the admin left it: four stored reports,
\* some set back to scored in the admin, report 2 possibly promoted before.
InitMatch ==
    /\ now = 0
    /\ \E at1 \in {0, -3}, loc2 \in {14, 60}, loc3 \in {18, NoLocation},
          ty3 \in {"accident", "crime"},
          sts \in [1..4 -> {"scored", "pending_review"}], linked \in BOOLEAN :
         /\ linked => sts[2] = "scored"
         /\ reports = admin_change(Backlog(at1, loc2, loc3, ty3), sts, linked)
         /\ incidents = IF linked
                        THEN <<create_incident(Backlog(at1, loc2, loc3, ty3)[2])>>
                        ELSE <<>>
    /\ logs = stage_logs(1, Len(StageNames)) \o stage_logs(2, Len(StageNames))
                 \o stage_logs(3, Len(StageNames)) \o stage_logs(4, Len(StageNames))
    /\ matches = <<>>
    /\ last_fetched = [s \in Sources |-> NeverFetched]
    /\ pc = [r \in Runs |-> "idle"]
    /\ queue = [r \in Runs |-> <<>>]
    /\ snapshot = [r \in Runs |-> <<>>]
    /\ pendingAtQuery = [r \in Runs |-> {}]
    /\ last = Step("init", 0, 0)
    /\ probe = NoProbe

SpecMatch == InitMatch /\ [][NextRuns]_vars

\* one step of invocation r
RunStep(r) ==
    \/ Quiet /\ FetchFromSources(r)
    \/ ProcessCheck(r)
    \/ ProcessCommit(r)
    \/ ProcessRaise(r)
    \/ Match(r)
    \/ ApproveQuery(r)
    \/ ApproveOne(r)
    \/ Finish(r)

\* The invocations alone, one at a time, each started by the scheduler and each
\* call in it returning.
SpecFair == Init /\ [][NextRuns]_vars /\ \A r \in Runs : WF_vars(RunStep(r))

-----------------------------------------------------------------------------
(* NLPProcessor.classify_incident *)

\* keyword_mapping, in the order the dict literal lists it
keyword_mapping ==
    << <<"accident", "accident">>, <<"ajali", "accident">>, <<"crash", "accident">>,
       <<"robbery", "crime">>, <<"wizi", "crime">>, <<"theft", "crime">>,
       <<"shooting", "crime">>, <<"risasi", "crime">>,
       <<"fire", "hazard">>, <<"moto", "hazard">>,
       <<"police", "police_interaction">>, <<"checkpoint", "checkpoint">>,
       <<"sos", "sos">>, <<"emergency", "sos">> >>

\* the keyword labels a detection can deliver, each a sequence of words
KeywordLabels ==
    { <<"accident">>, <<"robbery">>, <<"fire">>, <<"sos">>,
      <<"police", "checkpoint">>, <<"flood">> }

\* kw in keyword.lower(), for a label of whole words
kw_in(kw, keyword) == \E n \in DOMAIN keyword : keyword[n] = kw

\* incident_counts[incident_type] = incident_counts.get(incident_type, 0) + 1 on
\* a dict kept as the sequence of its entries in insertion order
count_type(counts, ty) ==
    IF \E n \in DOMAIN counts : counts[n].type = ty
    THEN [n \in DOMAIN counts |->
             IF counts[n].type = ty THEN [counts[n] EXCEPT !.n = @ + 1] ELSE counts[n]]
    ELSE Append(counts, [type |-> ty, n |-> 1])

RECURSIVE count_keyword(_, _, _)
\* the inner loop over keyword_mapping.items(), from entry m on
count_keyword(counts, keyword, m) ==
    IF m > Len(keyword_mapping) THEN counts
    ELSE count_keyword(IF kw_in(keyword_mapping[m][1], keyword)
                       THEN count_type(counts, keyword_mapping[m][2])
                       ELSE counts,
                       keyword, m + 1)

RECURSIVE incident_counts(_)
\* the outer loop over the detected keywords
incident_counts(keywords) ==
    IF keywords = <<>> THEN <<>>
    ELSE count_keyword(incident_counts(SubSeq(keywords, 1, Len(keywords) - 1)),
                       keywords[Len(keywords)], 1)

\* max(incident_counts.items(), key=lambda x: x[1]): the first entry, in
\* insertion order, with the largest count
max_item(counts) ==
    counts[CHOOSE n \in DOMAIN counts :
              /\ \A m \in DOMAIN counts : counts[m].n <= counts[n].n
              /\ \A m \in 1..(n - 1) : counts[m].n < counts[n].n]

\* the incident type classify_incident returns
classify_incident(keywords) ==
    IF incident_counts(keywords) # <<>> THEN max_item(incident_counts(keywords)).type
    ELSE "other"

\* the sequences over S of length at most n
SeqsUpTo(S, n) == UNION {[1..k -> S] : k \in 0..n}

ClassifyInputs == [stage : {"keywords"}, keywords : SeqsUpTo(KeywordLabels, MaxKeywords)]

Classify ==
    /\ probe.stage = "keywords"
    /\ probe' = [stage |-> "classified", keywords |-> probe.keywords,
                 incident_type |-> classify_incident(probe.keywords)]
    /\ UNCHANGED pipevars

-----------------------------------------------------------------------------
(* NLPProcessor.detect_keywords *)

\* rows of IncidentKeyword; regex_pattern "" is an empty pattern, "(" one that
\* does not compile, any other pattern is a word searched in the text
KeywordRows ==
    [keyword : {"ajali", "moto"}, is_active : BOOLEAN, is_regex : BOOLEAN,
     regex_pattern : {"", "(", "ajali", "moto"}]

\* re.search(pattern, text_lower, re.IGNORECASE): re.error for the pattern that
\* does not compile
re_search(pattern, text) ==
    IF pattern = "(" THEN [raised |-> TRUE, found |-> FALSE]
    ELSE [raised |-> FALSE, found |-> pattern \in text]

RECURSIVE detect_loop(_, _, _)
\* the loop over the active rows, with the keywords found so far
detect_loop(rows, text, keywords) ==
    IF rows = <<>> THEN [raised |-> FALSE, keywords |-> keywords]
    ELSE LET row == Head(rows)
         IN IF row.is_regex /\ row.regex_pattern # ""
            THEN IF re_search(row.regex_pattern, text).raised
                 THEN [raised |-> TRUE, keywords |-> <<>>]
                 ELSE detect_loop(Tail(rows), text,
                                  IF re_search(row.regex_pattern, text).found
                                  THEN Append(keywords, row.keyword) ELSE keywords)
            ELSE detect_loop(Tail(rows), text,
                             IF row.keyword \in text
                             THEN Append(keywords, row.keyword) ELSE keywords)

\* IncidentKeyword.objects.filter(is_active=True)
active_rows(table) == SelectSeq(table, LAMBDA row : row.is_active)

\* detect_keywords(text) over the keyword table: the labels found, or the
\* exception that leaves the function
detect_keywords(table, text) == detect_loop(active_rows(table), text, <<>>)

DetectInputs ==
    [stage : {"table"}, table : SeqsUpTo(KeywordRows, MaxTable),
     text : {{"ajali"}, {"ajali", "moto"}}]

Detect ==
    /\ probe.stage = "table"
    /\ probe' = [stage |-> "detected", table |-> probe.table, text |-> probe.text,
                 result |-> detect_keywords(probe.table, probe.text)]
    /\ UNCHANGED pipevars

\* classify_incident and detect_keywords applied to each input
InitNlp == InitPipeline /\ probe \in ClassifyInputs \cup DetectInputs

NextNlp == Classify \/ Detect

SpecNlp == InitNlp /\ [][NextNlp]_vars

-----------------------------------------------------------------------------
(* NLPProcessor.clean_text *)

\* a text is a sequence of characters; the classes \w, \S and \s over them
Letters == {"h", "t", "p", "P"}
Chars == Letters \cup {" ", "@", "#"}
WordChars == Letters
NonSpace == Chars \ {" "}

\* str.lower() of one character
lower_char(c) ==
    CASE c = "P" -> "p" [] OTHER -> c

RECURSIVE span(_, _, _)
\* length of the longest run of characters of class S that starts at i
span(text, i, S) ==
    IF i <= Len(text) /\ text[i] \in S THEN 1 + span(text, i + 1, S) ELSE 0

RECURSIVE remove_tokens(_, _)
\* re.sub(r'http\S+|@\w+|#\w+', '', text) from position i on: the pattern is
\* matched as written, case-sensitively
remove_tokens(text, i) ==
    IF i > Len(text) THEN <<>>
    ELSE IF /\ i + 3 <= Len(text)
            /\ SubSeq(text, i, i + 3) = <<"h", "t", "t", "p">>
            /\ span(text, i + 4, NonSpace) >= 1
         THEN remove_tokens(text, i + 4 + span(text, i + 4, NonSpace))
    ELSE IF text[i] \in {"@", "#"} /\ span(text, i + 1, WordChars) >= 1
         THEN remove_tokens(text, i + 1 + span(text, i + 1, WordChars))
    ELSE <<text[i]>> \o remove_tokens(text, i + 1)

\* re.sub(r"[^\w\s\d\u00C0-\u017F]", " ", text)
blank_specials(text) ==
    [n \in DOMAIN text |-> IF text[n] \in WordChars \cup {" "} THEN text[n] ELSE " "]

RECURSIVE normalize_whitespace(_)
\* ' '.join(text.split())
normalize_whitespace(text) ==
    IF text = <<>> THEN <<>>
    ELSE IF Head(text) = " " THEN normalize_whitespace(Tail(text))
    ELSE LET n == span(text, 1, NonSpace)
             rest == normalize_whitespace(SubSeq(text, n + 1, Len(text)))
         IN SubSeq(text, 1, n) \o (IF rest = <<>> THEN <<>> ELSE <<" ">> \o rest)

\* text.lower()
lower(text) == [n \in DOMAIN text |-> lower_char(text[n])]

clean_text(text) == lower(normalize_whitespace(blank_specials(remove_tokens(text, 1))))

CleanInputs == [stage : {"text"}, text : SeqsUpTo(Chars, MaxLen)]

\* clean_text applied to the probe's text, at first to the input and then to
\* its own result
Clean ==
    /\ probe.stage \in {"text", "cleaned"}
    /\ probe' = [stage |-> IF probe.stage = "text" THEN "cleaned" ELSE "cleaned_twice",
                 text |-> clean_text(probe.text), input |-> probe.text]
    /\ UNCHANGED pipevars

InitClean == InitPipeline /\ probe \in CleanInputs

NextClean == Clean

SpecClean == InitClean /\ [][NextClean]_vars

-----------------------------------------------------------------------------
(* KenyanGeocoder.geocode on its own, beside an invocation *)

GeoResponses ==
    [kind : {"ok"}, type : {"road", "city", "village"}, point : {10}] \cup
    [kind : {"connection_error", "http_error", "no_results", "malformed"},
     type : {""}, point : {NoLocation}]

GeoInputs ==
    [stage : {"location"}, location_text : {"", "nairobi", "thika road"},
     response : GeoResponses]

Geocode ==
    /\ probe.stage = "location"
    /\ probe' = [stage |-> "geocoded", location_text |-> probe.location_text,
                 response |-> probe.response,
                 result |-> geocode_response(probe.location_text, probe.response)]
    /\ UNCHANGED pipevars

InitGeo == InitPipeline /\ probe \in GeoInputs

\* one invocation, and geocode applied to the probe at any moment
NextGeo == RunStep(1) \/ Geocode

SpecGeo == InitGeo /\ [][NextGeo]_vars

-----------------------------------------------------------------------------
(* The invocations with an external geocoding service that may never answer *)

\* the invocation is inside process_single_report for an item with a location
\* text: geocode calls requests.get, which is given no timeout
awaits_geocoder(r) ==
    /\ pc[r] = "txn"
    /\ ItemOf(Head(queue[r])).location_text # ""

\* a step of invocation r that does not depend on an answer of the service
LocalStep(r) == ~awaits_geocoder(r) /\ RunStep(r)

\* Each invocation keeps taking the steps that are its own; a step that waits
\* for the geocoding service is taken only if the service answers.
SpecService == Init /\ [][NextRuns]_vars /\ \A r \in Runs : WF_vars(LocalStep(r))

-----------------------------------------------------------------------------
(* Properties *)

PipelineActs == {"fetch", "duplicate", "check", "commit", "raise", "match", "query",
                 "promote", "finish"}

StatusRank(st) ==
    CASE st = "raw" -> 0
      [] st = "processed" -> 1
      [] st = "geocoded" -> 2
      [] st = "scored" -> 3
      [] st = "pending_review" -> 4
      [] OTHER -> 5

Decided == {"approved", "rejected", "merged"}

\* a stored report carries the key of the item
KeyStored(i) ==
    \E id \in DOMAIN reports :
        /\ reports[id].source = ItemOf(i).source
        /\ reports[id].source_identifier = ItemOf(i).source_identifier

\* C1: process_single_report on an item whose (source, source_identifier) is
\* already stored, in whatever status, changes neither the reports nor the
\* processing logs, and the call is over after that one step.
C1_DuplicateIsNoOp ==
    [][\A r \in Runs :
         ( /\ pc[r] = "process"
           /\ queue[r] # <<>>
           /\ KeyStored(Head(queue[r]))
           /\ (pc'[r] # pc[r] \/ queue'[r] # queue[r]) )
         => ( /\ reports' = reports
              /\ logs' = logs
              /\ pc'[r] = "process"
              /\ queue'[r] = Tail(queue[r]) )]_vars

\* C1 witness: a duplicate of a report that is already approved was just skipped
C1_Witness ==
    /\ last.act = "duplicate"
    /\ \E id \in DOMAIN reports :
         /\ reports[id].source = ItemOf(last.item).source
         /\ reports[id].source_identifier = ItemOf(last.item).source_identifier
         /\ reports[id].status = "approved"

\* C2: at most one stored report per (source, source_identifier), also when
\* invocations overlap.
C2_UniqueKey ==
    \A a, b \in DOMAIN reports :
        ( /\ reports[a].source = reports[b].source
          /\ reports[a].source_identifier = reports[b].source_identifier ) => a = b

\* the six stage rows of report id, each once
HasLogTrail(id) ==
    \A n \in DOMAIN StageNames :
        Cardinality({k \in DOMAIN logs : /\ logs[k].report = id
                                         /\ logs[k].stage = StageNames[n]}) = 1

\* C3: process_single_report is all-or-nothing: every stored report is at
\* pending_review or later and has its stage rows, and every stored
\* processing-log row belongs to a stored report; no report is left at raw,
\* processed, geocoded or scored.
C3_AllOrNothing ==
    /\ \A id \in DOMAIN reports :
         /\ reports[id].status \in {"pending_review"} \cup Decided
         /\ HasLogTrail(id)
    /\ \A k \in DOMAIN logs : logs[k].report \in DOMAIN reports

\* C3 witness: a call has just raised while other reports are stored
C3_Witness == last.act = "raise" /\ reports # <<>>

\* C4: no step of the pipeline moves a report's status backwards, nor a report
\* at approved, rejected or merged to another status.
C4_StatusForward ==
    [][last'.act \in PipelineActs =>
         \A id \in DOMAIN reports :
            /\ id \in DOMAIN reports'
            /\ StatusRank(reports'[id].status) >= StatusRank(reports[id].status)
            /\ (reports[id].status \in Decided => reports'[id].status = reports[id].status)]_vars

\* the gate of auto-promotion as the specification states it
Promotable(r) ==
    /\ r.confidence_level \in {"high", "verified"}
    /\ r.location # NoLocation

\* C5: at the step with which run_pipeline finishes, every report that was at
\* pending_review with tier high or verified and a resolved location when
\* auto-promotion began is approved and linked to an incident of its own,
\* created from it.
C5_PromotedAtFinish ==
    [][\A r \in Runs : (pc[r] = "promote" /\ pc'[r] = "done") =>
         /\ \A id \in pendingAtQuery[r] : Promotable(reports'[id]) =>
               /\ reports'[id].status = "approved"
               /\ reports'[id].incident \in DOMAIN incidents'
               /\ incidents'[reports'[id].incident].incident_type = reports'[id].incident_type
               /\ incidents'[reports'[id].incident].location = reports'[id].location
         /\ \A a, b \in pendingAtQuery[r] :
               ( /\ Promotable(reports'[a]) /\ Promotable(reports'[b])
                 /\ reports'[a].incident = reports'[b].incident ) => a = b]_vars

\* C5 witness: an invocation has just finished, having promoted a report of tier
\* high and another of tier verified, while a report without a location stays
\* at pending_review
C5_Witness ==
    /\ last.act = "finish"
    /\ \E a, b, c \in DOMAIN reports :
         /\ reports[a].confidence_level = "high" /\ reports[a].status = "approved"
         /\ reports[a].incident \in DOMAIN incidents
         /\ reports[b].confidence_level = "verified" /\ reports[b].status = "approved"
         /\ reports[b].incident \in DOMAIN incidents
         /\ reports[c].location = NoLocation /\ reports[c].status = "pending_review"

\* C6: a promotion step changes a report only if, at that step, the report is
\* at pending_review, of tier high or verified, with a resolved location.
C6_PromotionGated ==
    [][last'.act = "promote" =>
         \A id \in DOMAIN reports :
            reports'[id] # reports[id] =>
               /\ reports[id].status = "pending_review"
               /\ Promotable(reports[id])]_vars

\* C7: an incident the pipeline creates is unverified, anonymous and at status
\* reported, and no pipeline step changes the verified flag of an incident.
C7_NeverVerifiedByPipeline ==
    [][last'.act \in PipelineActs =>
         /\ \A i \in DOMAIN incidents' \ DOMAIN incidents :
              /\ ~incidents'[i].verified
              /\ incidents'[i].anonymous
              /\ incidents'[i].status = "reported"
         /\ \A i \in DOMAIN incidents :
              incidents'[i].verified = incidents[i].verified]_vars

\* C7 witness: the pipeline has just created an incident, beside one a person
\* has verified since its creation
C7_Witness ==
    /\ last.act = "promote"
    /\ \E i, j \in DOMAIN incidents : incidents[i].verified /\ ~incidents[j].verified

\* the weighted formula of the specification on stored fields, in 1/100000
WeightedFormula(r) ==
      30 * r.source_reliability
    + 25 * (IF r.cross_source_mentions * 200 > 1000 THEN 1000
            ELSE r.cross_source_mentions * 200)
    + 20 * r.temporal_recency
    + 15 * r.language_certainty
    + 10 * (CASE r.location_accuracy = "exact" -> 1000
              [] r.location_accuracy = "approximate" -> 700
              [] r.location_accuracy = "county" -> 300
              [] OTHER -> 500)

\* the tier of the specification
TierOf(score, official) ==
    IF official THEN "verified"
    ELSE IF score >= 80000 THEN "high"
    ELSE IF score >= 60000 THEN "medium"
    ELSE "low"

\* C8: for every stored report the confidence level is the tier of its stored
\* score and source (verified for an official source), and the stored score is
\* the weighted formula of its stored signal fields.
C8_TierAndScoreConsistent ==
    \A id \in DOMAIN reports :
        /\ reports[id].confidence_score = WeightedFormula(reports[id])
        /\ reports[id].confidence_level =
              TierOf(reports[id].confidence_score, reports[id].source = "official")

\* C8 witness: a stored report whose mentions were raised, and a report of an
\* official source that is verified with a score below the high threshold
C8_Witness ==
    /\ \E id \in DOMAIN reports : reports[id].cross_source_mentions > 1
    /\ \E id \in DOMAIN reports :
         /\ reports[id].confidence_level = "verified"
         /\ reports[id].confidence_score < 80000

\* C9: the score calculate_confidence stores lies in [0, 1].
C9_ScoreInUnitInterval ==
    probe.stage = "scored" =>
        (probe.confidence_score >= 0 /\ probe.confidence_score <= 100000)

\* C9 witness: an instance scored at exactly 1, with more mentions than the cap
C9_Witness ==
    /\ probe.stage = "scored"
    /\ probe.cross_source_mentions > 5
    /\ probe.confidence_score = 100000

\* C10: with the other signals fixed the score does not fall when
\* cross_source_mentions grows, and it is the same for all values from 5 on.
C10_MonotoneInMentions ==
    probe.stage = "scored" =>
        \A m \in 0..MaxMentions :
            /\ m >= probe.cross_source_mentions =>
                  total_score([probe EXCEPT !.cross_source_mentions = m])
                      >= probe.confidence_score
            /\ (m >= 5 /\ probe.cross_source_mentions >= 5) =>
                  total_score([probe EXCEPT !.cross_source_mentions = m])
                      = probe.confidence_score

\* C10 witness: an instance scored with 5 mentions, where the score is strictly
\* above what 4 mentions give
C10_Witness ==
    /\ probe.stage = "scored"
    /\ probe.cross_source_mentions = 5
    /\ total_score([probe EXCEPT !.cross_source_mentions = 4]) < probe.confidence_score

\* the four signal terms of the specification's formula other than the location
\* term, on stored fields, in 1/100000
SignalTerms(r) ==
      30 * r.source_reliability
    + 25 * (IF r.cross_source_mentions * 200 > 1000 THEN 1000
            ELSE r.cross_source_mentions * 200)
    + 20 * r.temporal_recency
    + 15 * r.language_certainty

\* C11: a stored report without a resolved location is scored with the location
\* term 0.10 * 0.5; the terms 0.10 * 1.0, 0.10 * 0.7 and 0.10 * 0.3 appear only
\* in the score of a report geocoded as exact, approximate and county.
C11_UnresolvedIsNeutral ==
    \A id \in DOMAIN reports :
        LET r == reports[id]
            term == r.confidence_score - SignalTerms(r)
        IN /\ r.location = NoLocation => term = 10 * 500
           /\ term = 10 * 1000 => (r.location # NoLocation /\ r.location_accuracy = "exact")
           /\ term = 10 * 700 => (r.location # NoLocation /\ r.location_accuracy = "approximate")
           /\ term = 10 * 300 => (r.location # NoLocation /\ r.location_accuracy = "county")

\* the similarity predicate of the specification between two reports
SimilarityPredicate(r, s) ==
    /\ r.incident_type = s.incident_type
    /\ r.location # NoLocation
    /\ s.location # NoLocation
    /\ Abs(r.location - s.location) <= 5
    /\ Abs(r.reported_at - s.reported_at) <= 2

\* C12: find_similar_reports(r) returns a report s only if r and s are of the
\* same incident type, both have a resolved location, these are within 5 km,
\* and their reported times are within 2 hours of each other in either
\* direction.
C12_SimilarOnlyIfPredicate ==
    \A a \in DOMAIN reports :
        \A b \in find_similar_reports(reports, reports[a], a) :
            SimilarityPredicate(reports[a], reports[b])

\* C14: every report is a member of at most one CrossSourceMatch.
C14_OneMatchPerReport ==
    \A id \in DOMAIN reports :
        Cardinality({k \in DOMAIN matches : id \in matches[k].automated_reports}) <= 1

\* C15: a CrossSourceMatch that find_cross_source_matches created or updated
\* has match_score 0.2 * (number of its members - 1).
C15_ScoreFromMemberCount ==
    [][last'.act = "match" =>
         \A k \in DOMAIN matches' :
            (k \notin DOMAIN matches \/ matches'[k] # matches[k]) =>
                matches'[k].match_score
                    = 200 * (Cardinality(matches'[k].automated_reports) - 1)]_vars

\* C13: when the first invocation has finished and no other has started, two
\* stored reports (ingested by it) that satisfy the similarity predicate and
\* were reported within the last 6 hours are together in exactly one
\* CrossSourceMatch.
C13_SimilarPairMatched ==
    (pc[1] = "done" /\ \A q \in Runs \ {1} : pc[q] = "idle") =>
        \A a, b \in DOMAIN reports :
            ( /\ a # b
              /\ SimilarityPredicate(reports[a], reports[b])
              /\ reports[a].reported_at >= now - 6
              /\ reports[b].reported_at >= now - 6 ) =>
                Cardinality({k \in DOMAIN matches :
                                {a, b} \subseteq matches[k].automated_reports}) = 1

\* the items the feeds list
FeedItems == UNION {{fetch_from_source(s)[n] : n \in DOMAIN fetch_from_source(s)} : s \in Sources}

\* the items of source s in a queue
ItemsFrom(q, s) == {q[n] : n \in {m \in DOMAIN q : ItemOf(q[m]).source = s}}

\* C16: in an invocation, matching runs only when process_single_report is over
\* for every fetched item, promotion begins only after matching has finished,
\* and once matching has run no item of the invocation is processed any more.
C16_StepsOrdered ==
    [][\A r \in Runs :
         /\ (last'.act = "match" /\ last'.run = r /\ pc[r] # "approve") =>
               (pc[r] = "process" /\ queue[r] = <<>>)
         /\ (pc'[r] = "promote" /\ pc[r] # "promote") => pc[r] = "approve"
         /\ pc[r] \in {"approve", "promote", "done", "aborted"} =>
               /\ pc'[r] \in {"approve", "promote", "done", "aborted"}
               /\ queue'[r] = <<>>
               /\ (last'.run = r => last'.act \in {"query", "promote", "finish"})]_vars

\* C16 witness: the first invocation is promoting after it stored two reports
\* and matching ran
C16_Witness ==
    /\ last.act = "promote" /\ last.run = 1
    /\ \A q \in Runs \ {1} : pc[q] = "idle"
    /\ Len(reports) >= 2

C18_FetchIntervalRespected ==
    [][\A r \in Runs :
         (last'.act = "fetch" /\ last'.run = r /\ pc[r] = "idle") =>
            \A s \in Sources :
               ( /\ last_fetched[s] # NeverFetched
                 /\ (now - last_fetched[s]) * 60 < FetchIntervalMinutes ) =>
                     /\ last_fetched'[s] = last_fetched[s]
                     /\ ItemsFrom(queue'[r], s) = {}]_vars

\* the highest status rank a report may have when the stage raised
RankAtStage(stage) ==
    CASE stage = "confidence_scoring" -> 2
      [] OTHER -> 1

\* C19: when a stage of process_single_report has raised for an item, a report
\* for the item is stored whose status is not past the stage, with a
\* processing-log row of that stage with success false and the error message.
C19_FailureLogged ==
    last.act = "raise" =>
        \E id \in DOMAIN reports :
            /\ reports[id].source = ItemOf(last.item).source
            /\ reports[id].source_identifier = ItemOf(last.item).source_identifier
            /\ StatusRank(reports[id].status) <= RankAtStage(last.stage)
            /\ \E k \in DOMAIN logs :
                 /\ logs[k].report = id
                 /\ logs[k].stage = last.stage
                 /\ ~logs[k].success
                 /\ logs[k].error_message # ""

\* the processing of item i has just raised in invocation r
JustRaised(r, i) == last.act = "raise" /\ last.run = r /\ last.item = i

\* invocation r is inside process_single_report for item i, past the duplicate check
Attempting(r, i) == pc[r] = "txn" /\ Head(queue[r]) = i

\* a call of process_single_report whose stages all succeed stores the report
\* of the item at pending_review
SuccessStores ==
    [][\A r \in Runs :
         (pc[r] = "txn" /\ last'.act = "commit" /\ last'.run = r) =>
            /\ Len(reports') = Len(reports) + 1
            /\ reports'[Len(reports')].source = ItemOf(Head(queue[r])).source
            /\ reports'[Len(reports')].source_identifier
                  = ItemOf(Head(queue[r])).source_identifier
            /\ reports'[Len(reports')].status = "pending_review"]_vars

RowsOf(id, stage) == {k \in DOMAIN logs : logs[k].report = id /\ logs[k].stage = stage}

\* C21: there is at most one processing-log row per report and stage name, a
\* report at pending_review or later has exactly one row for each of the six
\* stages, and no step of the pipeline changes or removes a stored row.
C21_LogTrailAppendOnly ==
    /\ [](\A k \in DOMAIN logs :
             /\ Cardinality(RowsOf(logs[k].report, logs[k].stage)) <= 1
             /\ logs[k].stage \in {StageNames[n] : n \in DOMAIN StageNames})
    /\ [](\A id \in DOMAIN reports :
             StatusRank(reports[id].status) >= 4 =>
                \A n \in DOMAIN StageNames : Cardinality(RowsOf(id, StageNames[n])) = 1)
    /\ [][last'.act \in PipelineActs =>
            \A k \in DOMAIN logs : k \in DOMAIN logs' /\ logs'[k] = logs[k]]_vars

\* C21 witness: a promotion has just happened with three reports stored, so 18
\* rows are in the log
C21_Witness ==
    /\ last.act = "promote"
    /\ Len(reports) = 3
    /\ Len(logs) = 18

\* the invocations that are between their first and their last step
Active == {r \in Runs : pc[r] \notin {"idle", "done", "aborted"}}

\* C22: at most one run_pipeline invocation is active at any time.
C22_NonReentrant == Cardinality(Active) <= 1

\* the fixed priority order of the specification, first wins
TypePriority ==
    <<"sos", "crime", "accident", "hazard", "police_interaction", "checkpoint", "other">>

PriorityRank(ty) == CHOOSE n \in DOMAIN TypePriority : TypePriority[n] = ty

\* the tally of a type over the detected keywords
Tally(keywords, ty) ==
    Cardinality({<<n, m>> \in (DOMAIN keywords) \X (DOMAIN keyword_mapping) :
                    /\ keyword_mapping[m][2] = ty
                    /\ kw_in(keyword_mapping[m][1], keywords[n])})

\* the type with the highest tally, ties by priority; other when nothing matches
BestType(keywords) ==
    LET tys == {TypePriority[n] : n \in DOMAIN TypePriority}
    IN IF \A ty \in tys : Tally(keywords, ty) = 0 THEN "other"
       ELSE CHOOSE ty \in tys :
               \A o \in tys :
                  \/ Tally(keywords, o) < Tally(keywords, ty)
                  \/ (Tally(keywords, o) = Tally(keywords, ty)
                      /\ PriorityRank(ty) <= PriorityRank(o))

\* C23: classify_incident returns the type with the highest tally over the
\* detected keywords, a tie going to the type first in the order sos, crime,
\* accident, hazard, police_interaction, checkpoint, other, whatever the order
\* of the keywords; other when no keyword matches.
C23_TieBreakByPriority ==
    probe.stage = "classified" => probe.incident_type = BestType(probe.keywords)

\* the labels of the active rows that are valid and match the text, in table order
ValidMatches(table, text) ==
    LET hit(row) == /\ row.is_active
                    /\ IF row.is_regex /\ row.regex_pattern # ""
                       THEN row.regex_pattern # "(" /\ row.regex_pattern \in text
                       ELSE row.keyword \in text
        sel == SelectSeq(table, hit)
    IN [n \in DOMAIN sel |-> sel[n].keyword]

\* C24: detect_keywords does not raise, whatever patterns the active rows hold,
\* and returns the labels of all valid rows that match the text.
C24_MalformedRegexIsolated ==
    probe.stage = "detected" =>
        /\ ~probe.result.raised
        /\ probe.result.keywords = ValidMatches(probe.table, probe.text)

\* C25: clean_text(clean_text(x)) = clean_text(x) for every text x, and the
\* empty text is cleaned to the empty text.
C25_CleanIdempotent ==
    /\ probe.stage = "cleaned_twice" => probe.text = probe.input
    /\ (probe.stage = "cleaned" /\ probe.input = <<>>) => probe.text = <<>>

\* C26: geocode never raises; when the external service fails (connection
\* error, non-success response, no results, malformed response) it returns the
\* centroid of the county named in the text with accuracy county, or else the
\* unresolved result; a stored report whose location text was not resolved has
\* no location and is at pending_review when its processing commits.
C26_GeocodeFailureNotFatal ==
    /\ [](probe.stage = "geocoded" =>
            /\ ~probe.result.raised
            /\ probe.response.kind # "ok" =>
                  IF probe.location_text \in DOMAIN county_centroids
                  THEN /\ probe.result.ok
                       /\ probe.result.point = county_centroids[probe.location_text]
                       /\ probe.result.accuracy = "county"
                  ELSE probe.result = Unresolved)
    /\ [][last'.act = "commit" =>
            LET r == reports'[Len(reports')]
                item == ItemOf(last'.item)
            IN /\ r.status = "pending_review"
               /\ r.location \in {NoLocation, item.point}]_vars

C26_Witness ==
    /\ probe.stage = "geocoded"
    /\ probe.response.kind = "malformed"
    /\ probe.location_text = "nairobi"
    /\ \E id \in DOMAIN reports :
          /\ reports[id].location_text # ""
          /\ reports[id].location = NoLocation
          /\ reports[id].status = "pending_review"

\* C27: every invocation of run_pipeline that has started eventually returns,
\* also when the geocoding service never answers.
C27_RunTerminates ==
    \A r \in Runs : (pc[r] # "idle") ~> (pc[r] \in {"done", "aborted"})

\* the reports linked to an incident
Linked == {id \in DOMAIN reports : reports[id].incident # NoIncident}

\* C28: with invocations one after the other, every incident the pipeline
\* created is the incident of exactly one report, a linked report is approved,
\* the queryset of auto_approve_high_confidence selects no approved or linked
\* report, and a promotion links a report that had no incident: there are as
\* many incidents as promoted reports.
C28_PromotedOnce ==
    /\ [](/\ \A i \in DOMAIN incidents :
                Cardinality({id \in DOMAIN reports : reports[id].incident = i}) = 1
          /\ \A id \in Linked : /\ reports[id].incident \in DOMAIN incidents
                                /\ reports[id].status = "approved"
          /\ Len(incidents) = Cardinality(Linked))
    /\ [][/\ last'.act = "query" =>
                \A n \in DOMAIN snapshot'[last'.run] :
                   /\ snapshot'[last'.run][n].row.status = "pending_review"
                   /\ snapshot'[last'.run][n].row.incident = NoIncident
          /\ last'.act = "promote" =>
                /\ Len(incidents') = Len(incidents) + 1
                /\ \E id \in DOMAIN reports :
                      /\ reports[id].incident = NoIncident
                      /\ reports'[id].incident = Len(incidents')
                      /\ \A o \in DOMAIN reports \ {id} : reports'[o] = reports[o]]_vars

\* a later invocation promotes a second report while the first keeps its incident
C28_Witness ==
    /\ last.act = "promote"
    /\ last.run = 2
    /\ Len(incidents) = 2
    /\ Cardinality(Linked) = 2

RECURSIVE Reach(_, _)
\* the members of S reached from R along pairs that satisfy the similarity predicate
Reach(S, R) ==
    LET R2 == R \cup {b \in S : \E a \in R : SimilarityPredicate(reports[a], reports[b])}
    IN IF R2 = R THEN R ELSE Reach(S, R2)

\* C30: any two members of a CrossSourceMatch are connected by a chain of
\* members that pairwise satisfy the similarity predicate.
C30_MatchIsOneEvent ==
    \A k \in DOMAIN matches :
        \A a \in matches[k].automated_reports :
            Reach(matches[k].automated_reports, {a}) = matches[k].automated_reports

=============================================================================
